---- MODULE Spec2Model ----
(***************************************************************************)
(* Decision engine of the AI-enhanced CI/CD repository:                    *)
(*   - the oracle-response parsers (gemini-ai-client.ts, ollama-ai-client) *)
(*   - the test predictor and its strategy generator (ai-test-predictor)   *)
(*   - the failure classifier and the retry loops that drive it            *)
(*   - the deployment gate (ai-demo.ts)                                    *)
(*                                                                         *)
(* Units.  Probabilities, confidences and scores are held in hundredths    *)
(* (0.78 is 78), run times in seconds, delays in milliseconds, timeouts    *)
(* in half seconds (so that estimatedRunTime * 1.5 stays an integer).      *)
(* Arithmetic is exact: the rounding of IEEE doubles is not modelled.      *)
(***************************************************************************)
EXTENDS Integers, Sequences, FiniteSets, TLC

VARIABLES
    \* ---- oracle-response parsers
    parser,         \* which parser the raw text is handed to
    raw,            \* the raw oracle output
    nPc,            \* "received" | "parsed"
    analysis,       \* the AICodeAnalysis the parser returned
    \* ---- predictor + strategy generator
    isEnabled,      \* GeminiAIClient.isEnabled
    changes,        \* the CodeChange[] of the current analyzeCodeChanges call
    pPc,            \* "idle" | "awaiting" | "predicted" | "planned"
    oracleCalls,    \* generateContent calls issued by the current call
    oracleOutcome,  \* how the oracle call ended
    predictions,    \* TestPrediction[] returned by analyzeCodeChanges
    strategy,       \* OptimizationStrategy returned by generateOptimizationStrategy
    \* ---- failure classifier and retry loops
    failure,        \* the (testName, error, attemptNumber) last classified
    decision,       \* what handleTestFailure / shouldRetryTest answered
    analysisF,      \* what GeminiAIClient.analyzeTestFailure answered
    run,            \* the retry loop of the test runner
    \* ---- deployment gate
    data,           \* deploymentData handed to makeAIDeploymentDecision
    gPc,            \* "input" | "decided" | "raised"
    aiDecision,     \* the verdict
    priorApproved,  \* whether the check before this one approved
    artifacts,      \* what the four artifact readers find in the pipeline
    metrics,        \* what the four artifact readers returned
    \* ---- pipeline optimizer
    optimizationHistory, \* AIPipelineOptimizer.optimizationHistory
    result,              \* metrics and insights of the latest OptimizationResult
    realTimeInsights,    \* what getRealTimeInsights returned since the latest run
    githubStrategy       \* what generateGitHubActionsStrategy returned since then

vars == <<parser, raw, nPc, analysis,
          isEnabled, changes, pPc, oracleCalls, oracleOutcome, predictions, strategy,
          failure, decision, analysisF, run,
          data, gPc, aiDecision, priorApproved, artifacts, metrics,
          optimizationHistory, result, realTimeInsights, githubStrategy>>

normVars == <<parser, raw, nPc, analysis>>
optimizerVars == <<optimizationHistory, result, realTimeInsights, githubStrategy>>
pipeVars == <<isEnabled, changes, pPc, oracleCalls, oracleOutcome, predictions, strategy,
              optimizerVars>>
retryVars == <<failure, decision, analysisF, run>>
gateVars == <<data, gPc, aiDecision, priorApproved, artifacts, metrics>>

Min(a, b) == IF a <= b THEN a ELSE b
Max(a, b) == IF a >= b THEN a ELSE b

RECURSIVE SumSeq(_)
SumSeq(s) == IF s = <<>> THEN 0 ELSE Head(s) + SumSeq(Tail(s))

RECURSIVE MaxSeq(_)
MaxSeq(s) == IF Len(s) = 1 THEN s[1] ELSE Max(Head(s), MaxSeq(Tail(s)))

Range(s) == {s[i] : i \in 1..Len(s)}

(***************************************************************************)
(* JavaScript values.  A JSON value is a record tagged by its type; a      *)
(* string carries a symbolic content s and its length n.  A JS number is   *)
(* a record so that NaN is a value of its own.                             *)
(***************************************************************************)
JUndef == [t |-> "undefined"]
JNull == [t |-> "null"]
JNum(v) == [t |-> "number", v |-> v]
JStr(s, n) == [t |-> "string", s |-> s, n |-> n]
JBool(b) == [t |-> "boolean", b |-> b]
JArr(a) == [t |-> "array", a |-> a]
JObj(o) == [t |-> "object", o |-> o]

NaN == [nan |-> TRUE, v |-> 0]
Num(v) == [nan |-> FALSE, v |-> v]

\* The numeric strings of the model, with the number they denote.
NumericStrings == {"1", "", "7"}
StringValue(s) == CASE s = "1" -> 1 [] s = "" -> 0 [] s = "7" -> 7

\* Number(x), in a field whose unit is 1/unit (100 for a probability held in
\* hundredths, 1 for seconds and milliseconds)
ToNumber(j, unit) ==
    CASE j.t = "undefined" -> NaN
      [] j.t = "null" -> Num(0)
      [] j.t = "number" -> Num(j.v)
      [] j.t = "boolean" -> IF j.b THEN Num(unit) ELSE Num(0)
      [] j.t = "string" ->
            IF j.s \in NumericStrings THEN Num(StringValue(j.s) * unit) ELSE NaN
      [] j.t = "array" -> IF j.a = <<>> THEN Num(0) ELSE NaN
      [] OTHER -> NaN

\* the truthiness x || d tests
Truthy(j) ==
    CASE j.t = "undefined" -> FALSE
      [] j.t = "null" -> FALSE
      [] j.t = "number" -> j.v # 0
      [] j.t = "boolean" -> j.b
      [] j.t = "string" -> j.n > 0
      [] OTHER -> TRUE

\* Number(x) || d
NumberOr(j, d, unit) ==
    LET x == ToNumber(j, unit) IN IF x.nan \/ x.v = 0 THEN Num(d) ELSE x

MathMin(a, b) == IF a.nan \/ b.nan THEN NaN ELSE Num(Min(a.v, b.v))
MathMax(a, b) == IF a.nan \/ b.nan THEN NaN ELSE Num(Max(a.v, b.v))

\* Math.max(0, Math.min(1, x))
Clamp01(x) == MathMax(Num(0), MathMin(Num(100), x))

\* String(x): the content and the length of the string a value converts to
StringOf(j) ==
    CASE j.t = "string" -> [s |-> j.s, n |-> j.n]
      [] j.t = "number" -> [s |-> "<number>", n |-> 1]
      [] j.t = "boolean" -> IF j.b THEN [s |-> "true", n |-> 4] ELSE [s |-> "false", n |-> 5]
      [] j.t = "array" -> [s |-> "<array>", n |-> Len(j.a)]
      [] OTHER -> [s |-> "[object Object]", n |-> 15]

\* s.slice(0, k)
Slice(str, k) == [s |-> str.s, n |-> Min(str.n, k)]

(***************************************************************************)
(* Changed files.  A path is known by the markers it contains, as written  *)
(* (String.includes) and after toLowerCase().                              *)
(***************************************************************************)
Files == {"src/auth/login.ts", "src/auth/session.ts", "src/api/users.ts",
          "src/components/UserProfile.tsx", "src/config/database.ts",
          "src/login.ts", "src/Auth/token.ts"}

Includes(f, marker) ==
    CASE marker = "auth" -> f \in {"src/auth/login.ts", "src/auth/session.ts"}
      [] marker = "api" -> f = "src/api/users.ts"
      [] marker = "ui" -> FALSE
      [] marker = "component" -> f = "src/components/UserProfile.tsx"
      [] OTHER -> FALSE

LowerIncludes(f, marker) ==
    Includes(f, marker) \/ (marker = "auth" /\ f = "src/Auth/token.ts")

\* changedFiles.some(f => f.includes(marker))
SomeIncludes(files, marker) == \E i \in 1..Len(files) : Includes(files[i], marker)

\* changedFiles.some(f => f.toLowerCase().includes(marker))
SomeLowerIncludes(files, marker) == \E i \in 1..Len(files) : LowerIncludes(files[i], marker)

RiskLevels == {"high", "medium", "low"}

Suite(name, priority, time) ==
    [name |-> name, priority |-> priority, estimatedRunTime |-> time]

\* GeminiAIClient.generateDefaultTestSuites
generateDefaultTestSuites(changedFiles) ==
    LET hasAuth == SomeIncludes(changedFiles, "auth")
        hasApi == SomeIncludes(changedFiles, "api")
        hasUi == \E i \in 1..Len(changedFiles) :
                    Includes(changedFiles[i], "ui") \/ Includes(changedFiles[i], "component")
        suites ==
            (IF hasAuth
                THEN <<Suite("Authentication Tests", "high", 45)>> ELSE <<>>)
            \o (IF hasApi
                THEN <<Suite("API Integration Tests", "high", 60)>> ELSE <<>>)
            \o (IF hasUi
                THEN <<Suite("UI Component Tests", "medium", 90)>> ELSE <<>>)
    IN  IF suites = <<>> THEN <<Suite("Integration Tests", "low", 120)>> ELSE suites

DefaultRecommendations ==
    JArr(<<JStr("Run affected test suites first", 30),
           JStr("Monitor for integration issues", 30),
           JStr("Consider additional validation", 30)>>)

\* GeminiAIClient.fallbackCodeAnalysis
fallbackCodeAnalysis(changedFiles) ==
    LET hasAuthChanges == SomeLowerIncludes(changedFiles, "auth")
        hasAPIChanges == SomeLowerIncludes(changedFiles, "api")
    IN  [riskLevel |-> IF hasAuthChanges THEN JStr("high", 4)
                       ELSE IF hasAPIChanges THEN JStr("medium", 6)
                       ELSE JStr("low", 3),
         failureProbability |-> IF hasAuthChanges THEN Num(75)
                                ELSE IF hasAPIChanges THEN Num(45)
                                ELSE Num(15),
         confidence |-> Num(60),
         reasoning |-> JStr("Heuristic analysis - Gemini AI unavailable", 42),
         recommendations |-> DefaultRecommendations,
         testSuites |-> generateDefaultTestSuites(changedFiles)]

\* GeminiAIClient.validateRiskLevel
validateRiskLevel(level) ==
    IF level.t = "string" /\ level.s \in RiskLevels THEN level.s ELSE "medium"

RiskStr(level) == JStr(level, IF level = "medium" THEN 6 ELSE IF level = "high" THEN 4 ELSE 3)

\* a member read of a parsed JSON value: x.f
Field(j, f) == IF j.t = "object" /\ f \in DOMAIN j.o THEN j.o[f] ELSE JUndef

\* x.f throws a TypeError exactly when x is null or undefined
Throws(j) == j.t \in {"null", "undefined"}

ReasoningMax == 100
RecommendationsMax == 3
MinRunTime == 10

SubSeqTo(s, k) == SubSeq(s, 1, Min(Len(s), k))

\* one element of parsed.testSuites, as the map callback converts it
ConvertSuite(suite) ==
    LET name == Field(suite, "name")
        t == NumberOr(Field(suite, "estimatedRunTime"), 60, 1)
    IN  Suite(StringOf(IF Truthy(name) THEN name ELSE JStr("Integration Tests", 17)).s,
              validateRiskLevel(Field(suite, "priority")),
              Max(MinRunTime, t.v))

\* GeminiAIClient.parseCodeAnalysisResponse.  The text is known by what
\* JSON.parse makes of the extracted jsonText: form "unparseable" (a
\* SyntaxError) or form "json" with the parsed value.
parseCodeAnalysisResponse(text, changedFiles) ==
    IF text.form # "json" THEN fallbackCodeAnalysis(changedFiles)
    ELSE LET parsed == text.value
             suites == Field(parsed, "testSuites")
             recs == Field(parsed, "recommendations")
             reasoning == Field(parsed, "reasoning")
         IN  IF Throws(parsed) THEN fallbackCodeAnalysis(changedFiles)
             ELSE IF suites.t = "array" /\ \E i \in 1..Len(suites.a) : Throws(suites.a[i])
                  THEN fallbackCodeAnalysis(changedFiles)
             ELSE [riskLevel |-> RiskStr(validateRiskLevel(Field(parsed, "riskLevel"))),
                   failureProbability |->
                       Clamp01(NumberOr(Field(parsed, "failureProbability"), 30, 100)),
                   confidence |-> Clamp01(NumberOr(Field(parsed, "confidence"), 80, 100)),
                   reasoning |->
                       LET str == Slice(StringOf(IF Truthy(reasoning) THEN reasoning
                                                 ELSE JStr("AI analysis completed", 21)),
                                        ReasoningMax)
                       IN  JStr(str.s, str.n),
                   recommendations |->
                       IF recs.t = "array" THEN JArr(SubSeqTo(recs.a, RecommendationsMax))
                       ELSE JArr(<<JStr("Review test coverage", 20),
                                   JStr("Monitor deployment", 18)>>),
                   testSuites |->
                       IF suites.t = "array"
                       THEN [i \in 1..Len(suites.a) |-> ConvertSuite(suites.a[i])]
                       ELSE generateDefaultTestSuites(changedFiles)]

(***************************************************************************)
(* The second GeminiAIClient of gemini-ai-client.ts reads prose.  A prose  *)
(* answer is known by what the three regular expressions capture and by    *)
(* the lines the two line filters keep:                                    *)
(*   risk  the tier /risk level:\s*(high|medium|low)/ captures, or "none"  *)
(*   prob, conf  the [\d.]+ captures as character sequences, <<>> = none   *)
(*   reasoningLine  length of the first line naming a reason, 0 = none     *)
(*   recLines  trimmed lengths of the lines the recommendation filter      *)
(*             keeps, in order                                             *)
(***************************************************************************)
Digits == {"0", "1", "5"}
DigitValue(c) == CASE c = "0" -> 0 [] c = "1" -> 1 [] c = "5" -> 5

\* longest prefix of cs made of digits
RECURSIVE DigitPrefix(_)
DigitPrefix(cs) ==
    IF cs = <<>> \/ Head(cs) \notin Digits THEN <<>>
    ELSE <<Head(cs)>> \o DigitPrefix(Tail(cs))

RECURSIVE IntValue(_)
IntValue(ds) ==
    IF ds = <<>> THEN 0 ELSE IntValue(SubSeq(ds, 1, Len(ds) - 1)) * 10 + DigitValue(ds[Len(ds)])

\* the first two fraction digits, in hundredths
FracValue(ds) ==
    (IF Len(ds) >= 1 THEN DigitValue(ds[1]) * 10 ELSE 0)
    + (IF Len(ds) >= 2 THEN DigitValue(ds[2]) ELSE 0)

\* parseFloat of a string of digits and dots
parseFloat(cs) ==
    LET int == DigitPrefix(cs)
        rest == SubSeq(cs, Len(int) + 1, Len(cs))
        frac == IF rest # <<>> /\ Head(rest) = "." THEN DigitPrefix(Tail(rest)) ELSE <<>>
    IN  IF int = <<>> /\ frac = <<>> THEN NaN
        ELSE Num(IntValue(int) * 100 + FracValue(frac))

MinRecLength == 10

\* GeminiAIClient.parseResponse
parseResponse(text) ==
    LET riskLevel == IF text.risk # "none" THEN text.risk ELSE "medium"
        failureProbability == IF text.prob # <<>> THEN parseFloat(text.prob) ELSE Num(50)
        confidence == IF text.conf # <<>> THEN parseFloat(text.conf) ELSE Num(80)
        reasoning == IF text.reasoningLine > 0
                     THEN [s |-> "<line>", n |-> text.reasoningLine]
                     ELSE [s |-> "AI analysis completed", n |-> 21]
        kept == SelectSeq(SubSeqTo(text.recLines, 3), LAMBDA n : n > MinRecLength)
        recommendations ==
            IF kept = <<>>
            THEN <<JStr("Monitor test execution", 22), JStr("Review code changes", 19)>>
            ELSE [i \in 1..Len(kept) |-> JStr("<line>", kept[i])]
        r == Slice(reasoning, ReasoningMax)
    IN  [riskLevel |-> RiskStr(riskLevel),
         failureProbability |-> Clamp01(failureProbability),
         confidence |-> Clamp01(confidence),
         reasoning |-> JStr(r.s, r.n),
         recommendations |-> JArr(SubSeqTo(recommendations, RecommendationsMax)),
         testSuites |-> <<Suite("Integration Tests", riskLevel, 60)>>]

\* OllamaAIClient.fallbackAnalysis
fallbackAnalysis(changedFiles) ==
    LET hasAuthChanges == SomeIncludes(changedFiles, "auth")
        hasAPIChanges == SomeIncludes(changedFiles, "api")
    IN  [riskLevel |-> IF hasAuthChanges THEN JStr("high", 4)
                       ELSE IF hasAPIChanges THEN JStr("medium", 6)
                       ELSE JStr("low", 3),
         failureProbability |-> IF hasAuthChanges THEN Num(70)
                                ELSE IF hasAPIChanges THEN Num(40)
                                ELSE Num(10),
         confidence |-> Num(60),
         reasoning |-> JStr("Heuristic analysis based on file patterns", 41),
         recommendations |-> DefaultRecommendations]

\* x || d
Or(j, d) == IF Truthy(j) THEN j ELSE d

\* OllamaAIClient.parseAIResponse.  /\{[\s\S]*\}/ matches only a text that
\* holds braces, so a parsed value that is no object means no match.
parseAIResponse(response) ==
    IF response.form # "json" \/ response.value.t # "object" THEN fallbackAnalysis(<<>>)
    ELSE LET parsed == response.value
         IN  [riskLevel |-> Or(Field(parsed, "riskLevel"), JStr("medium", 6)),
              failureProbability |-> NumberOr(Field(parsed, "failureProbability"), 30, 100),
              confidence |-> NumberOr(Field(parsed, "confidence"), 80, 100),
              reasoning |-> Or(Field(parsed, "reasoning"), JStr("AI analysis completed", 21)),
              recommendations |->
                  Or(Field(parsed, "recommendations"),
                     JArr(<<JStr("Monitor test results", 20), JStr("Review code changes", 19)>>))]

(***************************************************************************)
(* The raw oracle outputs the parsers are run on.                          *)
(***************************************************************************)
MaxRecs == 4
MaxCapture == 3
MaxLines == 3

SeqsUpTo(S, n) == UNION {[1..k -> S] : k \in 0..n}

RiskVals == {JUndef, JStr("high", 4), JStr("low", 3), JStr("critical", 8), JNum(1)}
ProbVals == {JUndef, JNull, JNum(0 - 50), JNum(0), JNum(50), JNum(100), JNum(250),
             JStr("1", 1), JStr("abc", 3)}
ConfVals == {JUndef, JNum(0), JNum(90), JNum(150)}
ReasonVals == {JUndef, JStr("", 0), JStr("<text>", 100), JStr("<text>", 101), JNum(5)}
RecVals == {JUndef, JStr("<text>", 40)}
           \cup {JArr([i \in 1..k |-> JStr("<rec>", 20)]) : k \in 0..MaxRecs}
SuiteVals == {JUndef,
              JArr(<<JNull>>),
              JArr(<<JObj([name |-> JStr("Authentication Tests", 20),
                           priority |-> JStr("urgent", 6),
                           estimatedRunTime |-> JNum(0 - 5)])>>)}

JsonObjects ==
    {JObj(o) : o \in [riskLevel : RiskVals, failureProbability : ProbVals,
                      confidence : ConfVals, reasoning : ReasonVals,
                      recommendations : RecVals, testSuites : SuiteVals]}

JsonTexts ==
    {[form |-> "unparseable"]}
    \cup {[form |-> "json", value |-> v] :
            v \in {JNull, JNum(5), JStr("high", 4), JArr(<<>>), JObj(<<>>)} \cup JsonObjects}

ProseTexts ==
    [form : {"prose"},
     risk : {"none", "high", "low"},
     prob : SeqsUpTo(Digits \cup {"."}, MaxCapture),
     conf : {<<>>, <<".">>, <<"0", ".", "5">>, <<"5">>},
     reasoningLine : {0, 60, 140},
     recLines : SeqsUpTo({5, 40}, MaxLines)]

Parsers == {"parseCodeAnalysisResponse", "parseResponse", "parseAIResponse"}

NoAnalysis == [riskLevel |-> JUndef]

(***************************************************************************)
(* Values of the components a specification leaves out.                    *)
(***************************************************************************)
NormOff == /\ parser = "none" /\ raw = [form |-> "none"]
           /\ nPc = "off" /\ analysis = NoAnalysis
OptimizerOff == /\ optimizationHistory = <<>> /\ result = [set |-> FALSE]
                /\ realTimeInsights = [set |-> FALSE]
                /\ githubStrategy = [set |-> FALSE]
PipeOff == /\ isEnabled = FALSE /\ changes = <<>> /\ pPc = "off" /\ oracleCalls = 0
           /\ oracleOutcome = "none"
           /\ predictions = <<>> /\ strategy = [set |-> FALSE]
           /\ OptimizerOff
RetryOff == /\ failure = [set |-> FALSE] /\ decision = [set |-> FALSE]
            /\ analysisF = [set |-> FALSE] /\ run = [pc |-> "off"]
GateOff == /\ data = [set |-> FALSE] /\ gPc = "off" /\ aiDecision = [set |-> FALSE]
           /\ priorApproved = FALSE
           /\ artifacts = [set |-> FALSE] /\ metrics = [set |-> FALSE]

(***************************************************************************)
(* SpecNorm: every parser on every raw output.                             *)
(***************************************************************************)
InitNorm ==
    /\ parser \in Parsers
    /\ raw \in IF parser = "parseResponse" THEN ProseTexts ELSE JsonTexts
    /\ nPc = "received"
    /\ analysis = NoAnalysis
    /\ PipeOff /\ RetryOff /\ GateOff

\* GeminiAIClient.parseCodeAnalysisResponse(text, changedFiles)
ParseCodeAnalysis ==
    /\ nPc = "received" /\ parser = "parseCodeAnalysisResponse"
    /\ \E files \in {<<>>, <<"src/auth/login.ts">>} :
          analysis' = parseCodeAnalysisResponse(raw, files)
    /\ nPc' = "parsed"
    /\ UNCHANGED <<parser, raw, pipeVars, retryVars, gateVars>>

\* GeminiAIClient.parseResponse(text, changedFiles)
ParseProse ==
    /\ nPc = "received" /\ parser = "parseResponse"
    /\ analysis' = parseResponse(raw)
    /\ nPc' = "parsed"
    /\ UNCHANGED <<parser, raw, pipeVars, retryVars, gateVars>>

\* OllamaAIClient.parseAIResponse(response)
ParseOllama ==
    /\ nPc = "received" /\ parser = "parseAIResponse"
    /\ analysis' = parseAIResponse(raw)
    /\ nPc' = "parsed"
    /\ UNCHANGED <<parser, raw, pipeVars, retryVars, gateVars>>

NextNorm == ParseCodeAnalysis \/ ParseProse \/ ParseOllama

SpecNorm == InitNorm /\ [][NextNorm]_vars

\* the assessment a parser returned is a valid RiskAssessment
ValidAssessment(a) ==
    /\ ~a.failureProbability.nan
    /\ a.failureProbability.v >= 0 /\ a.failureProbability.v <= 100
    /\ ~a.confidence.nan
    /\ a.confidence.v >= 0 /\ a.confidence.v <= 100
    /\ a.riskLevel.t = "string" /\ a.riskLevel.s \in RiskLevels
    /\ a.reasoning.t = "string" /\ a.reasoning.n <= ReasoningMax
    /\ a.recommendations.t = "array" /\ Len(a.recommendations.a) <= RecommendationsMax

\* C1: whatever the raw oracle output, each parser returns an assessment with
\* failureProbability and confidence in [0,1] (never NaN), a tier among high,
\* medium, low, a reasoning of at most 100 characters and at most 3 actions.
C1_NormalizerTotality == nPc = "parsed" => ValidAssessment(analysis)

(***************************************************************************)
(* Failure classifier.                                                     *)
(***************************************************************************)
\* AITestPredictor.initializeHistoricalData: flakePatterns
SuiteNames == {"Authentication Tests", "API Integration Tests", "UI Component Tests",
               "Database Tests", "Integration Tests"}

flakePatterns ==
    [n \in SuiteNames |->
        CASE n = "Authentication Tests" -> 35
          [] n = "API Integration Tests" -> 28
          [] n = "UI Component Tests" -> 45
          [] n = "Database Tests" -> 15
          [] n = "Integration Tests" -> 20]

\* this.flakePatterns.get(name) || 0
FlakeScore(name) == IF name \in DOMAIN flakePatterns THEN flakePatterns[name] ELSE 0

TestNames == SuiteNames \cup {"flaky-navigation-test", ""}

\* Error signatures, known by the markers they contain as written and after
\* toLowerCase().
ErrorSignatures == {"ECONNRESET at line 4",
                    "TimeoutError: locator.click: Timeout 100ms exceeded.",
                    "request timeout after 30s",
                    "network unreachable",
                    "Connection refused",
                    "AssertionError: expected 2 got 3"}

ErrIncludes(e, marker) ==
    CASE marker = "timeout" -> e = "request timeout after 30s"
      [] marker = "network" -> e = "network unreachable"
      [] marker = "ECONNRESET" -> e = "ECONNRESET at line 4"
      [] OTHER -> FALSE

ErrLowerIncludes(e, marker) ==
    CASE marker = "timeout" ->
            e \in {"request timeout after 30s",
                   "TimeoutError: locator.click: Timeout 100ms exceeded."}
      [] marker = "network" -> e = "network unreachable"
      [] marker = "econnreset" -> e = "ECONNRESET at line 4"
      [] marker = "connection refused" -> e = "Connection refused"
      [] OTHER -> FALSE

MaxAttemptsReason == "Maximum retry attempts reached"
RealFailureReason == "Error pattern indicates real failure, not flakiness"
FlakyReason == "Flaky test detected"

MaxAttempts == 3
FlakeThreshold == 30
BackoffStep == 2000
BackoffCap == 10000

AtCeiling_OffByOne(attemptNumber) == attemptNumber > MaxAttempts

\* the ceiling test of shouldRetryTest
AtCeiling(attemptNumber) == attemptNumber >= MaxAttempts

\* the delay of shouldRetryTest's retry branch
RetryDelay(attemptNumber) == Min(BackoffStep * attemptNumber, BackoffCap)

\* AITestPredictor.shouldRetryTest
shouldRetryTest(testName, error, attemptNumber) ==
    LET flakeScore == FlakeScore(testName)
        isNetworkError == \/ ErrIncludes(error, "timeout")
                          \/ ErrIncludes(error, "network")
                          \/ ErrIncludes(error, "ECONNRESET")
        isFlaky == flakeScore > FlakeThreshold \/ isNetworkError
    IN  IF AtCeiling(attemptNumber)
        THEN [shouldRetry |-> FALSE, reason |-> MaxAttemptsReason,
              confidence |-> 95, recommendedDelay |-> 0]
        ELSE IF ~isFlaky
        THEN [shouldRetry |-> FALSE, reason |-> RealFailureReason,
              confidence |-> 87, recommendedDelay |-> 0]
        ELSE [shouldRetry |-> TRUE, reason |-> FlakyReason,
              confidence |-> 82, recommendedDelay |-> RetryDelay(attemptNumber)]

\* AIPipelineOptimizer.handleTestFailure
handleTestFailure(testName, error, attemptNumber) ==
    LET retryDecision == shouldRetryTest(testName, error, attemptNumber)
    IN  [set |-> TRUE,
         action |-> IF retryDecision.shouldRetry THEN "retry" ELSE "fail",
         reason |-> retryDecision.reason,
         delay |-> retryDecision.recommendedDelay,
         confidence |-> retryDecision.confidence]

\* GeminiAIClient.fallbackFailureAnalysis
fallbackFailureAnalysis(errorMessage, attemptNumber) ==
    LET isNetworkError == \/ ErrLowerIncludes(errorMessage, "timeout")
                          \/ ErrLowerIncludes(errorMessage, "network")
                          \/ ErrLowerIncludes(errorMessage, "econnreset")
    IN  [set |-> TRUE,
         isFlaky |-> isNetworkError,
         shouldRetry |-> isNetworkError /\ attemptNumber < MaxAttempts,
         confidence |-> Num(70),
         recommendedDelay |-> Num(BackoffStep * attemptNumber)]

\* Boolean(x)
ToBoolean(j) == Truthy(j)

MinOracleDelay == 1000

\* GeminiAIClient.parseFailureAnalysisResponse.  /\{[\s\S]*\}/ matches only a
\* text that holds braces; JSON.parse of the match throws or yields an object.
parseFailureAnalysisResponse(text, errorMessage, attemptNumber) ==
    IF text.form # "json" \/ text.value.t # "object"
    THEN fallbackFailureAnalysis(errorMessage, attemptNumber)
    ELSE LET parsed == text.value
         IN  [set |-> TRUE,
              isFlaky |-> ToBoolean(Field(parsed, "isFlaky")),
              shouldRetry |-> ToBoolean(Field(parsed, "shouldRetry"))
                              /\ attemptNumber < MaxAttempts,
              confidence |-> Clamp01(NumberOr(Field(parsed, "confidence"), 70, 100)),
              recommendedDelay |->
                  MathMax(Num(MinOracleDelay),
                          MathMin(Num(BackoffCap),
                                  NumberOr(Field(parsed, "recommendedDelay"), 2000, 1)))]

\* GeminiAIClient.analyzeTestFailure: the answer for each way the call can go
\* ("disabled": no API key; "throws": generateContent rejects; "answers")
analyzeTestFailure(mode, text, errorMessage, attemptNumber) ==
    IF mode = "answers"
    THEN parseFailureAnalysisResponse(text, errorMessage, attemptNumber)
    ELSE fallbackFailureAnalysis(errorMessage, attemptNumber)

MaxAttemptNumber == 6

AttemptNumbers == (0 - MaxAttemptNumber)..MaxAttemptNumber

FailureTexts ==
    {[form |-> "unparseable"]}
    \cup {[form |-> "json", value |-> JObj(o)] :
            o \in [isFlaky : {JUndef, JBool(TRUE)},
                   shouldRetry : {JUndef, JBool(TRUE), JBool(FALSE), JStr("yes", 3)},
                   confidence : {JUndef, JNum(150)},
                   recommendedDelay : {JUndef, JNum(0 - 500), JNum(500), JNum(60000),
                                       JStr("soon", 4)}]}

Failure(testName, error, attemptNumber) ==
    [set |-> TRUE, testName |-> testName, error |-> error, attemptNumber |-> attemptNumber]

(***************************************************************************)
(* SpecClassify: the classifier on every failure event.                    *)
(***************************************************************************)
InitClassify ==
    /\ failure \in {Failure(testName, error, attemptNumber) :
                        testName \in TestNames, error \in ErrorSignatures,
                        attemptNumber \in AttemptNumbers}
    /\ decision = [set |-> FALSE]
    /\ analysisF = [set |-> FALSE]
    /\ run = [pc |-> "off"]
    /\ NormOff /\ PipeOff /\ GateOff

Unclassified == ~decision.set /\ ~analysisF.set

\* the failure event is handed to AIPipelineOptimizer.handleTestFailure
Classify ==
    /\ Unclassified
    /\ decision' = handleTestFailure(failure.testName, failure.error, failure.attemptNumber)
    /\ UNCHANGED <<failure, analysisF, run, normVars, pipeVars, gateVars>>

\* the failure event is handed to GeminiAIClient.analyzeTestFailure
AnalyzeTestFailure ==
    /\ Unclassified
    /\ \E mode \in {"disabled", "throws", "answers"}, text \in FailureTexts :
          analysisF' = analyzeTestFailure(mode, text, failure.error, failure.attemptNumber)
    /\ UNCHANGED <<failure, decision, run, normVars, pipeVars, gateVars>>

NextClassify == Classify \/ AnalyzeTestFailure

SpecClassify == InitClassify /\ [][NextClassify]_vars

C7_BackoffBound ==
    /\ decision.set => (decision.delay >= 0 /\ decision.delay <= BackoffCap)
    /\ analysisF.set => (/\ ~analysisF.recommendedDelay.nan
                         /\ analysisF.recommendedDelay.v >= 0
                         /\ analysisF.recommendedDelay.v <= BackoffCap)

(***************************************************************************)
(* The retry loops that drive the classifier.                              *)
(*   "smart"     tests/smart-pipeline.spec.ts, through handleTestFailure   *)
(*   "enhanced"  the AI-enhanced suite, through shouldRetryTest            *)
(* run.attemptCount counts the attempts made; an attempt passes or fails   *)
(* with one of the error signatures.                                       *)
(***************************************************************************)
LoopMaxAttempts == 3
LoopMaxRetries == 2

RunnerKinds == {"smart", "enhanced"}

Run(pc, kind, testName, attemptCount, outcome) ==
    [pc |-> pc, kind |-> kind, testName |-> testName,
     attemptCount |-> attemptCount, outcome |-> outcome]

InitRunner ==
    /\ run = Run("idle", "none", "none", 0, "none")
    /\ failure = [set |-> FALSE]
    /\ decision = [set |-> FALSE]
    /\ analysisF = [set |-> FALSE]
    /\ NormOff /\ PipeOff /\ GateOff

\* a test with a retry loop starts: attemptCount = 0
StartRun ==
    /\ run.pc \in {"idle", "done"}
    /\ \E kind \in RunnerKinds, testName \in TestNames :
          run' = Run("running", kind, testName, 0, "none")
    /\ failure' = [set |-> FALSE]
    /\ decision' = [set |-> FALSE]
    /\ UNCHANGED <<analysisF, normVars, pipeVars, gateVars>>

\* the attempt passes: break
AttemptPasses ==
    /\ run.pc = "running"
    /\ run' = [run EXCEPT !.pc = "done", !.attemptCount = @ + 1, !.outcome = "passed"]
    /\ UNCHANGED <<failure, decision, analysisF, normVars, pipeVars, gateVars>>

\* smart-pipeline.spec.ts: the attempt fails and the catch block asks
\* handleTestFailure; then the while condition is evaluated
SmartAttemptFails ==
    /\ run.pc = "running" /\ run.kind = "smart"
    /\ \E error \in ErrorSignatures :
          LET attemptCount == run.attemptCount + 1
              d == handleTestFailure(run.testName, error, attemptCount)
          IN  /\ failure' = Failure(run.testName, error, attemptCount)
              /\ decision' = d
              /\ run' = IF d.action = "retry" /\ attemptCount < LoopMaxAttempts
                        THEN [run EXCEPT !.attemptCount = attemptCount]
                        ELSE IF d.action = "fail"
                        THEN [run EXCEPT !.pc = "done", !.attemptCount = attemptCount,
                                         !.outcome = "failed"]
                        ELSE IF attemptCount < LoopMaxAttempts
                        THEN [run EXCEPT !.attemptCount = attemptCount]
                        ELSE [run EXCEPT !.pc = "done", !.attemptCount = attemptCount,
                                         !.outcome = "exhausted"]
    /\ UNCHANGED <<analysisF, normVars, pipeVars, gateVars>>

\* the AI-enhanced suite: the attempt fails, retryCount++ and, within the
\* retry budget, the catch block asks shouldRetryTest
EnhancedAttemptFails ==
    /\ run.pc = "running" /\ run.kind = "enhanced"
    /\ \E error \in ErrorSignatures :
          LET retryCount == run.attemptCount + 1
              r == shouldRetryTest(run.testName, error, retryCount)
          IN  IF retryCount <= LoopMaxRetries
              THEN /\ failure' = Failure(run.testName, error, retryCount)
                   /\ decision' = [set |-> TRUE,
                                   action |-> IF r.shouldRetry THEN "retry" ELSE "fail",
                                   reason |-> r.reason, delay |-> r.recommendedDelay,
                                   confidence |-> r.confidence]
                   /\ run' = IF r.shouldRetry
                             THEN [run EXCEPT !.attemptCount = retryCount]
                             ELSE [run EXCEPT !.pc = "done", !.attemptCount = retryCount,
                                              !.outcome = "failed"]
              ELSE /\ UNCHANGED <<failure, decision>>
                   /\ run' = [run EXCEPT !.pc = "done", !.attemptCount = retryCount,
                                         !.outcome = "failed"]
    /\ UNCHANGED <<analysisF, normVars, pipeVars, gateVars>>

Attempt == AttemptPasses \/ SmartAttemptFails \/ EnhancedAttemptFails

NextRunner == StartRun \/ AttemptPasses \/ SmartAttemptFails \/ EnhancedAttemptFails

SpecRunner == InitRunner /\ [][NextRunner]_vars

\* a started attempt ends: the page operations of an attempt carry a timeout
SpecRunnerFair == SpecRunner /\ WF_vars(Attempt)

\* C3: a retry loop that starts at attempt 1 and re-runs only on a retry answer
\* makes at most 3 attempts, ends in pass or fail, and always ends, also when
\* every attempt fails with a transient error.
C3_RetryLoopTerminates ==
    /\ [](run.attemptCount <= 3)
    /\ [](run.pc = "done" => run.outcome \in {"passed", "failed"})
    /\ (run.pc = "running" ~> run.pc = "done")

\* C3 witness: a loop ended in fail after three attempts, the last of them a
\* transient error
C3_Witness ==
    /\ run.pc = "done" /\ run.attemptCount = 3 /\ run.outcome = "failed"
    /\ run.kind = "smart"
    /\ failure.set /\ failure.attemptNumber = 3
    /\ failure.error = "ECONNRESET at line 4"

(***************************************************************************)
(* Deployment gate.  The four scores are in hundredths, so their average   *)
(* overallScore is OverallSum / 400.                                       *)
(***************************************************************************)
ScoreNames == {"testSuccessRate", "securityScore", "performanceScore", "codeQuality"}

\* the values each score is drawn from
ScoreValues ==
    [k \in ScoreNames |->
        CASE k = "testSuccessRate" -> {0, 78, 85, 86, 92, 100}
          [] k = "securityScore" -> {85, 86, 95, 100}
          [] k = "performanceScore" -> {72, 85, 86, 88, 100}
          [] k = "codeQuality" -> {79, 85, 86, 87, 100}]

MaxIssues == 2

DeploymentData ==
    [set : {TRUE}, testSuccessRate : ScoreValues["testSuccessRate"],
     securityScore : ScoreValues["securityScore"],
     performanceScore : ScoreValues["performanceScore"],
     codeQuality : ScoreValues["codeQuality"],
     criticalIssues : SeqsUpTo({"compile error"}, MaxIssues)]

OverallSum_QualityInverted(d) ==
    d.testSuccessRate + d.securityScore + d.performanceScore + (200 - d.codeQuality)

\* the sum of makeAIDeploymentDecision's overallScore
OverallSum(d) ==
    d.testSuccessRate + d.securityScore + d.performanceScore + d.codeQuality

ScorePercentage_Truncated(d) == OverallSum(d) \div 4

\* Math.round(overallScore * 100), overallScore * 100 being OverallSum / 4
ScorePercentage(d) == (OverallSum(d) + 2) \div 4

DeployThreshold == 85

Approved_Inclusive(d) ==
    OverallSum(d) >= 4 * DeployThreshold /\ Len(d.criticalIssues) = 0

\* overallScore > 0.85 && data.criticalIssues.length === 0
Approved(d) ==
    OverallSum(d) > 4 * DeployThreshold /\ Len(d.criticalIssues) = 0

\* the fallback decision logic of makeAIDeploymentDecision
FallbackDecision(d) ==
    [set |-> TRUE,
     approved |-> Approved(d),
     score |-> ScorePercentage(d),
     reasoning |->
        IF Approved(d)
        THEN << <<"Test success rate", d.testSuccessRate>>,
                <<"Security score", d.securityScore>>,
                <<"Performance score", d.performanceScore>>,
                <<"Code quality", d.codeQuality>>,
                <<"All metrics above deployment threshold", 0>> >>
        ELSE << <<"Overall score below 85% threshold", ScorePercentage(d)>>,
                <<"Critical issues detected", Len(d.criticalIssues)>>,
                <<"Manual review recommended before deployment", 0>>,
                <<"Address critical issues and retry deployment decision", 0>> >>]

\* AICIDemo.makeAIDeploymentDecision.  With the oracle available the method
\* calls geminiAI.analyzeDeploymentReadiness, which no GeminiAIClient defines:
\* the call throws a TypeError, the catch block logs it, and the fallback
\* decision logic runs as it does without the oracle.
makeAIDeploymentDecision_OracleTrusted(available, d) ==
    IF available
    THEN [FallbackDecision(d) EXCEPT !.approved = ~@]
    ELSE FallbackDecision(d)

makeAIDeploymentDecision(available, d) ==
    IF available THEN FallbackDecision(d) ELSE FallbackDecision(d)

InitGate ==
    /\ data \in DeploymentData
    /\ gPc = "input"
    /\ aiDecision = [set |-> FALSE]
    /\ priorApproved = FALSE
    /\ artifacts = [set |-> FALSE] /\ metrics = [set |-> FALSE]
    /\ isEnabled \in BOOLEAN
    /\ changes = <<>> /\ pPc = "off" /\ oracleCalls = 0 /\ oracleOutcome = "none"
    /\ OptimizerOff
    /\ predictions = <<>> /\ strategy = [set |-> FALSE]
    /\ NormOff /\ RetryOff

\* a deployment-readiness check decides on its input
Decide ==
    /\ gPc = "input"
    /\ aiDecision' = makeAIDeploymentDecision(isEnabled, data)
    /\ gPc' = "decided"
    /\ UNCHANGED <<data, priorApproved, artifacts, metrics, normVars, pipeVars, retryVars>>

OneScoreRaised(d, e) ==
    /\ e.criticalIssues = d.criticalIssues
    /\ \E k \in ScoreNames :
          /\ e[k] > d[k]
          /\ \A j \in ScoreNames \ {k} : e[j] = d[j]

\* the next check: the same input but for one score, which is larger
DecideRaised ==
    /\ gPc \in {"decided", "raised"}
    /\ \E k \in ScoreNames :
       \E v \in ScoreValues[k] :
          /\ v > data[k]
          /\ data' = [data EXCEPT ![k] = v]
          /\ aiDecision' = makeAIDeploymentDecision(isEnabled, data')
    /\ priorApproved' = aiDecision.approved
    /\ gPc' = "raised"
    /\ UNCHANGED <<artifacts, metrics, normVars, pipeVars, retryVars>>

NextGate == Decide \/ DecideRaised

SpecGate == InitGate /\ [][NextGate]_vars

C6_GateMonotone ==
    [][(gPc # "input" /\ gPc' # "input" /\ OneScoreRaised(data, data'))
          => (aiDecision.approved => aiDecision'.approved)]_vars

\* C6 witness: an approved input had its lowest score raised and was decided
\* again
C6_Witness ==
    /\ gPc = "raised" /\ priorApproved /\ aiDecision.approved
    /\ data.testSuccessRate = 100 /\ data.securityScore = 85
    /\ data.performanceScore = 86 /\ data.codeQuality = 85

(***************************************************************************)
(* Test predictor and strategy generator (ai-test-predictor).              *)
(* A prediction keeps the fields the strategy reads: testSuite,            *)
(* failureProbability, confidence, priority, estimatedRunTime.  testFile,  *)
(* reason and recommendation are texts nothing else reads.                 *)
(***************************************************************************)
Categories == {"auth", "api", "ui", "database", "config", "other"}

Prediction(suite, probability, confidence, priority, time) ==
    [testSuite |-> suite, failureProbability |-> probability, confidence |-> confidence,
     priority |-> priority, estimatedRunTime |-> time]

\* AITestPredictor.predictTestsForChange
predictTestsForChange(change) ==
    CASE change.category = "auth" ->
            <<Prediction("Authentication Tests", 78, 91, "high", 45)>>
      [] change.category = "api" ->
            <<Prediction("API Integration Tests", 65, 87, "high", 60)>>
      [] change.category = "ui" ->
            <<Prediction("UI Component Tests", 34, 82, "medium", 90)>>
      [] change.category = "database" ->
            <<Prediction("Database Tests", 45, 85, "medium", 30)>>
      [] OTHER ->
            <<Prediction("Integration Tests", 12, 75, "low", 120)>>

\* Array.prototype.sort((a, b) => b.failureProbability - a.failureProbability):
\* a stable sort, descending
RECURSIVE SortByProbability(_)
SortByProbability(ps) ==
    IF ps = <<>> THEN <<>>
    ELSE LET last == ps[Len(ps)]
             front == SortByProbability(SubSeq(ps, 1, Len(ps) - 1))
             ahead == SelectSeq(front, LAMBDA p : p.failureProbability >= last.failureProbability)
             behind == SelectSeq(front, LAMBDA p : p.failureProbability < last.failureProbability)
         IN  ahead \o <<last>> \o behind

\* for (const change of changes) predictions.push(...predictTestsForChange(change))
RECURSIVE PredictAll(_)
PredictAll(cs) ==
    IF cs = <<>> THEN <<>> ELSE predictTestsForChange(Head(cs)) \o PredictAll(Tail(cs))

\* AITestPredictor.analyzeCodeChanges, the fallback heuristic analysis
HeuristicPredictions(cs) == SortByProbability(PredictAll(cs))

\* AITestPredictor.analyzeCodeChanges, the predictions made of an AICodeAnalysis
AIPredictions(aiAnalysis) ==
    SortByProbability(
        [i \in 1..Len(aiAnalysis.testSuites) |->
            Prediction(aiAnalysis.testSuites[i].name,
                       aiAnalysis.failureProbability.v,
                       aiAnalysis.confidence.v,
                       aiAnalysis.testSuites[i].priority,
                       aiAnalysis.testSuites[i].estimatedRunTime)])

ChangedFiles(cs) == [i \in 1..Len(cs) |-> cs[i].file]

\* AITestPredictor.calculateRetries
calculateRetries(prediction) ==
    LET flakeScore == FlakeScore(prediction.testSuite)
    IN  IF prediction.priority = "high" /\ flakeScore > 30 THEN 3
        ELSE IF prediction.priority = "medium" /\ flakeScore > 20 THEN 2
        ELSE 1

SuitesOf_Reversed(ps) == [i \in 1..Len(ps) |-> ps[Len(ps) + 1 - i].testSuite]

\* list.map(p => p.testSuite)
SuitesOf(ps) == [i \in 1..Len(ps) |-> ps[i].testSuite]

\* AITestPredictor.calculateOptimizedTime
calculateOptimizedTime(ps, parallelGroups) ==
    IF Len(parallelGroups) = 0
    THEN SumSeq([i \in 1..Len(ps) |-> ps[i].estimatedRunTime])
    ELSE SumSeq([g \in 1..Len(parallelGroups) |->
            LET groupTests == SelectSeq(ps, LAMBDA p : p.testSuite \in Range(parallelGroups[g]))
            IN  MaxSeq([i \in 1..Len(groupTests) |-> groupTests[i].estimatedRunTime])])

\* the entry forEach leaves in resourceAllocation[name]: the one of the last
\* prediction of that name
LastOf(ps, name) ==
    ps[CHOOSE i \in 1..Len(ps) :
            /\ ps[i].testSuite = name
            /\ \A j \in (i + 1)..Len(ps) : ps[j].testSuite # name]

\* AITestPredictor.generateOptimizationStrategy
generateOptimizationStrategy(ps) ==
    LET highRisk == SelectSeq(ps, LAMBDA p : p.priority = "high")
        mediumRisk == SelectSeq(ps, LAMBDA p : p.priority = "medium")
        lowRisk == SelectSeq(ps, LAMBDA p : p.priority = "low")
        parallelGroups ==
            SelectSeq(<<SuitesOf(highRisk), SuitesOf(mediumRisk), SuitesOf(lowRisk)>>,
                      LAMBDA group : Len(group) > 0)
    IN  [set |-> TRUE,
         executionOrder |-> SuitesOf(highRisk) \o SuitesOf(mediumRisk) \o SuitesOf(lowRisk),
         parallelGroups |-> parallelGroups,
         resourceAllocation |->
            [name \in Range(SuitesOf(ps)) |->
                LET pred == LastOf(ps, name)
                IN  [runners |-> IF pred.priority = "high" THEN 2 ELSE 1,
                     timeout |-> IF pred.priority = "high"
                                 THEN 4 * pred.estimatedRunTime
                                 ELSE 3 * pred.estimatedRunTime,
                     retries |-> calculateRetries(pred)]],
         totalEstimatedTime |-> calculateOptimizedTime(ps, parallelGroups)]

MaxChanges == 2
MaxSuites == 2

Change(file, category) == [file |-> file, category |-> category]

ChangePool == {Change("src/auth/login.ts", "auth"),
               Change("src/auth/session.ts", "auth"),
               Change("src/api/users.ts", "api"),
               Change("src/components/UserProfile.tsx", "ui"),
               Change("src/config/database.ts", "config"),
               Change("src/config/database.ts", "database"),
               Change("src/login.ts", "auth")}

ChangeLists == SeqsUpTo(ChangePool, MaxChanges)

SuiteObject(name, priority, time) ==
    JObj([name |-> JStr(name, 10), priority |-> JStr(priority, 4),
          estimatedRunTime |-> JNum(time)])

SuiteObjects == {SuiteObject("Authentication Tests", "high", 100),
                 SuiteObject("Authentication Tests", "low", 10),
                 SuiteObject("UI Component Tests", "high", 10),
                 SuiteObject("UI Component Tests", "medium", 100)}

\* what the oracle may answer to analyzeCodeChanges
OracleReplies ==
    {[form |-> "unparseable"],
     [form |-> "json", value |-> JNull],
     [form |-> "json", value |-> JObj([riskLevel |-> JStr("low", 3)])]}
    \cup {[form |-> "json",
           value |-> JObj([riskLevel |-> JStr("high", 4),
                           failureProbability |-> JNum(80),
                           confidence |-> JNum(90),
                           testSuites |-> JArr(a)])] : a \in SeqsUpTo(SuiteObjects, MaxSuites)}

(***************************************************************************)
(* Spec: one analyzeCodeChanges call and the strategy made of its result.  *)
(***************************************************************************)
Init ==
    /\ isEnabled \in BOOLEAN
    /\ changes = <<>>
    /\ pPc = "idle"
    /\ oracleCalls = 0
    /\ oracleOutcome = "none"
    /\ predictions = <<>>
    /\ strategy = [set |-> FALSE]
    /\ OptimizerOff
    /\ NormOff /\ RetryOff /\ GateOff

\* analyzeCodeChanges without an API key: the heuristic analysis
AnalyzeHeuristic ==
    /\ pPc = "idle" /\ ~isEnabled
    /\ \E cs \in ChangeLists :
          /\ changes' = cs
          /\ predictions' = HeuristicPredictions(cs)
    /\ pPc' = "predicted"
    /\ UNCHANGED <<isEnabled, oracleCalls, oracleOutcome, strategy, optimizerVars,
                   normVars, retryVars, gateVars>>

\* analyzeCodeChanges with an API key, up to the await of
\* model.generateContent(prompt)
AnalyzeWithOracle ==
    /\ pPc = "idle" /\ isEnabled
    /\ \E cs \in ChangeLists : changes' = cs
    /\ oracleCalls' = oracleCalls + 1
    /\ oracleOutcome' = "pending"
    /\ pPc' = "awaiting"
    /\ UNCHANGED <<isEnabled, predictions, strategy, optimizerVars,
                   normVars, retryVars, gateVars>>

\* generateContent resolves: parseCodeAnalysisResponse and the predictions
OracleAnswers ==
    /\ pPc = "awaiting"
    /\ \E text \in OracleReplies :
          /\ predictions' =
                AIPredictions(parseCodeAnalysisResponse(text, ChangedFiles(changes)))
          /\ oracleOutcome' = IF text.form = "json" THEN "answered" ELSE "unparseable"
    /\ pPc' = "predicted"
    /\ UNCHANGED <<isEnabled, changes, oracleCalls, strategy, optimizerVars,
                   normVars, retryVars, gateVars>>

\* generateContent rejects: the client's catch block returns
\* fallbackCodeAnalysis(changedFiles)
OracleThrows ==
    /\ pPc = "awaiting"
    /\ predictions' = AIPredictions(fallbackCodeAnalysis(ChangedFiles(changes)))
    /\ oracleOutcome' = "threw"
    /\ pPc' = "predicted"
    /\ UNCHANGED <<isEnabled, changes, oracleCalls, strategy, optimizerVars,
                   normVars, retryVars, gateVars>>

\* generateOptimizationStrategy(predictions)
GenerateStrategy ==
    /\ pPc = "predicted"
    /\ strategy' = generateOptimizationStrategy(predictions)
    /\ pPc' = "planned"
    /\ UNCHANGED <<isEnabled, changes, oracleCalls, oracleOutcome, predictions,
                   optimizerVars, normVars, retryVars, gateVars>>

Next == AnalyzeHeuristic \/ AnalyzeWithOracle \/ OracleAnswers \/ OracleThrows
        \/ GenerateStrategy

Spec == Init /\ [][Next]_vars

\* The steps of the program itself are taken when enabled; whether the oracle
\* ever answers or fails is up to the network, and nothing in the code bounds
\* the wait.
SpecFair == Spec /\ WF_vars(AnalyzeHeuristic \/ AnalyzeWithOracle \/ GenerateStrategy)

Planned == pPc = "planned" /\ predictions # <<>>

Occurrences(seq, x) == Cardinality({i \in 1..Len(seq) : seq[i] = x})

RunTimes == [i \in 1..Len(predictions) |-> predictions[i].estimatedRunTime]

\* C4: for a non-empty list of predictions, every predicted suite appears in
\* exactly one parallel group, appears in executionOrder, and has a
\* resource-allocation entry.
C4_StrategyCoverage ==
    Planned =>
        \A i \in 1..Len(predictions) :
            LET name == predictions[i].testSuite
            IN  /\ Cardinality({g \in 1..Len(strategy.parallelGroups) :
                        name \in Range(strategy.parallelGroups[g])}) = 1
                /\ \A g \in 1..Len(strategy.parallelGroups) :
                        Occurrences(strategy.parallelGroups[g], name) <= 1
                /\ Occurrences(strategy.executionOrder, name) = 1
                /\ name \in DOMAIN strategy.resourceAllocation

\* C8: when the oracle is configured but its call throws or returns
\* unparseable output, predict raises nothing, issues the call once, and
\* returns the category-based heuristic predictions it returns with no oracle.
C8_OracleFailureAbsorbed ==
    (pPc \in {"predicted", "planned"} /\ oracleOutcome \in {"threw", "unparseable"}) =>
        /\ oracleCalls = 1
        /\ predictions = HeuristicPredictions(changes)

\* C9: every call to predict eventually returns: a pending oracle call is
\* abandoned after a bounded wait even when the oracle never answers.
C9_BoundedOracleWait == (pPc = "awaiting") ~> (pPc \in {"predicted", "planned"})

\* C10: for a non-empty list of predictions, totalEstimatedTime is at least the
\* largest single run time and at most the sum of all run times.
C10_CriticalPathBounds ==
    Planned =>
        /\ strategy.totalEstimatedTime >= MaxSeq(RunTimes)
        /\ strategy.totalEstimatedTime <= SumSeq(RunTimes)

Returned == pPc \in {"predicted", "planned"}

\* C11: the list predict returns holds at most one prediction per suite name,
\* for every change set.
C11_PredictionsDeduplicated ==
    Returned =>
        \A i, j \in 1..Len(predictions) :
            predictions[i].testSuite = predictions[j].testSuite => i = j

TransientMarkers == {"timeout", "network", "econnreset", "connection refused"}

\* C12: at attemptNumber 1 or 2 the decision is retry, with delay
\* min(2000 * attemptNumber, 10000), exactly when the error signature holds one
\* of the transient markers, compared case-insensitively, or the flake score
\* of the suite is above 0.3; otherwise it is fail.
C12_FlakyClassification ==
    (decision.set /\ failure.attemptNumber \in {1, 2}) =>
        LET transient ==
                \/ \E marker \in TransientMarkers : ErrLowerIncludes(failure.error, marker)
                \/ FlakeScore(failure.testName) > FlakeThreshold
        IN  IF transient
            THEN /\ decision.action = "retry"
                 /\ decision.delay = Min(BackoffStep * failure.attemptNumber, BackoffCap)
            ELSE decision.action = "fail"

\* the names of the predictions of one tier, in the order of the list
TierNames(tier) ==
    LET ofTier == SelectSeq(predictions, LAMBDA p : p.priority = tier)
    IN  [i \in 1..Len(ofTier) |-> ofTier[i].testSuite]

\* C13: the groups are the high-tier, the medium-tier and the low-tier suites,
\* in this order, empty groups left out, each in the order of the input; the
\* execution order lists the high tier, then the medium tier, then the low tier.
C13_TierOrdering ==
    pPc = "planned" =>
        /\ strategy.parallelGroups =
                SelectSeq(<<TierNames("high"), TierNames("medium"), TierNames("low")>>,
                          LAMBDA group : group # <<>>)
        /\ strategy.executionOrder =
                TierNames("high") \o TierNames("medium") \o TierNames("low")

\* C13 witness: a strategy whose high tier holds two suites, or whose order
\* moves a high-tier suite ahead of a low-tier suite predicted before it
C13_Witness ==
    /\ pPc = "planned" /\ Len(predictions) = 2
    /\ \/ /\ predictions[1].priority = "high" /\ predictions[2].priority = "high"
          /\ predictions[1].testSuite # predictions[2].testSuite
          /\ Len(strategy.parallelGroups) = 1
       \/ /\ predictions[1].priority = "low" /\ predictions[2].priority = "high"
          /\ strategy.executionOrder[1] = predictions[2].testSuite
          /\ Len(strategy.parallelGroups) = 2

\* the largest run time among the predictions of one tier, 0 for an empty tier
TierMaxTime(tier) ==
    LET ofTier == SelectSeq(predictions, LAMBDA p : p.priority = tier)
    IN  IF ofTier = <<>> THEN 0
        ELSE MaxSeq([i \in 1..Len(ofTier) |-> ofTier[i].estimatedRunTime])

\* C14: totalEstimatedTime is the sum, over the non-empty tiers, of the largest
\* estimatedRunTime among the suites of the tier; the empty list gives no
\* group, no allocation entry and total 0.
C14_CriticalPathFormula ==
    pPc = "planned" =>
        /\ strategy.totalEstimatedTime =
                TierMaxTime("high") + TierMaxTime("medium") + TierMaxTime("low")
        /\ predictions = <<>> =>
                /\ strategy.parallelGroups = <<>>
                /\ DOMAIN strategy.resourceAllocation = {}
                /\ strategy.totalEstimatedTime = 0

\* C15: a suite listed in the high-tier group has 2 runners and a timeout of
\* twice its estimatedRunTime, a suite of the medium or low group 1 runner and
\* 1.5 times its estimatedRunTime (timeouts in half seconds); the timeout
\* exceeds the run time; retries are 3 for a high-tier suite with flake score
\* above 0.3, 2 for a medium-tier suite with flake score above 0.2, 1 otherwise.
C15_ResourceAllocation ==
    pPc = "planned" =>
        \A i \in 1..Len(predictions) :
            LET pred == predictions[i]
                alloc == strategy.resourceAllocation[pred.testSuite]
                flakeScore == FlakeScore(pred.testSuite)
            IN  /\ pred.priority = "high" =>
                        (alloc.runners = 2 /\ alloc.timeout = 4 * pred.estimatedRunTime)
                /\ pred.priority # "high" =>
                        (alloc.runners = 1 /\ alloc.timeout = 3 * pred.estimatedRunTime)
                /\ alloc.timeout > 2 * pred.estimatedRunTime
                /\ alloc.runners >= 1
                /\ alloc.retries =
                        IF pred.priority = "high" /\ flakeScore > 30 THEN 3
                        ELSE IF pred.priority = "medium" /\ flakeScore > 20 THEN 2
                        ELSE 1

C17_CallerContractRejected ==
    (failure.set /\ (failure.attemptNumber < 1 \/ failure.testName = "")) =>
        ~(decision.set /\ decision.action \in {"retry", "fail", "skip"})

\* the suite the specification assigns to a category
CanonicalSuite(category) ==
    CASE category = "auth" -> "Authentication Tests"
      [] category = "api" -> "API Integration Tests"
      [] category = "ui" -> "UI Component Tests"
      [] category = "database" -> "Database Tests"
      [] OTHER -> "Integration Tests"

\* C18: on the heuristic path every category of the change set yields its
\* canonical suite, with auth at tier high and probability 0.75, api at a
\* probability within 0.45..0.65, ui at tier medium and a probability within
\* 0.3..0.4, and every other category at tier low and a probability of at
\* most 0.2.
C18_HeuristicPriors ==
    (Returned /\ oracleOutcome = "none") =>
        /\ \A i \in 1..Len(changes) :
                \E j \in 1..Len(predictions) :
                    predictions[j].testSuite = CanonicalSuite(changes[i].category)
        /\ \A j \in 1..Len(predictions) :
                LET p == predictions[j]
                IN  CASE p.testSuite = "Authentication Tests" ->
                            p.priority = "high" /\ p.failureProbability = 75
                      [] p.testSuite = "API Integration Tests" ->
                            p.failureProbability >= 45 /\ p.failureProbability <= 65
                      [] p.testSuite = "UI Component Tests" ->
                            /\ p.priority = "medium"
                            /\ p.failureProbability >= 30 /\ p.failureProbability <= 40
                      [] OTHER ->
                            p.priority = "low" /\ p.failureProbability <= 20

\* the position of a suite name in lexical order (code-unit order, as < on
\* strings gives it)
LexicalRank(name) ==
    CASE name = "API Integration Tests" -> 1
      [] name = "Authentication Tests" -> 2
      [] name = "Database Tests" -> 3
      [] name = "Integration Tests" -> 4
      [] name = "UI Component Tests" -> 5

\* C19: the list predict returns is in descending order of failureProbability,
\* and predictions of equal failureProbability are in ascending lexical order
\* of suite name.
C19_PredictionOrder ==
    Returned =>
        \A i, j \in 1..Len(predictions) :
            i < j =>
                /\ predictions[i].failureProbability >= predictions[j].failureProbability
                /\ predictions[i].failureProbability = predictions[j].failureProbability
                        => LexicalRank(predictions[i].testSuite)
                                <= LexicalRank(predictions[j].testSuite)

\* the field of the raw JSON output the parser was given
RawField(f) == IF raw.form = "json" THEN Field(raw.value, f) ELSE JUndef

\* C20: when the raw failureProbability (confidence) is a number, the JSON
\* parsers return min(1, max(0, raw)) for it: a raw value within [0,1], 0 and
\* 1 included, is returned unchanged.
C20_ClampKeepsValid ==
    (nPc = "parsed" /\ parser \in {"parseCodeAnalysisResponse", "parseAIResponse"}) =>
        \A f \in {"failureProbability", "confidence"} :
            RawField(f).t = "number" =>
                analysis[f] = Num(Min(100, Max(0, RawField(f).v)))

\* the raw output is not an object that can be inspected field by field
NotInspectable == raw.form # "json" \/ raw.value.t # "object"

\* C21: for a raw output that is not inspectable (null, not an object,
\* unparseable text) parseCodeAnalysisResponse returns the default assessment:
\* tier medium, failureProbability 0.3, confidence 0.6, whatever the changed
\* files.
C21_DefaultAssessment ==
    (nPc = "parsed" /\ parser = "parseCodeAnalysisResponse" /\ NotInspectable) =>
        /\ analysis.riskLevel = JStr("medium", 6)
        /\ analysis.failureProbability = Num(30)
        /\ analysis.confidence = Num(60)

\* C22: for an inspectable object, every field that is valid in the raw output
\* is returned from the raw output, whatever is missing or wrong-typed in the
\* other fields or in an element of the suite list.
C22_FieldIndependence ==
    (nPc = "parsed" /\ parser = "parseCodeAnalysisResponse" /\ ~NotInspectable) =>
        LET tier == RawField("riskLevel")
            prob == RawField("failureProbability")
            conf == RawField("confidence")
            reasoning == RawField("reasoning")
            recs == RawField("recommendations")
        IN  /\ (tier.t = "string" /\ tier.s \in RiskLevels) => analysis.riskLevel = tier
            /\ (prob.t = "number" /\ prob.v > 0 /\ prob.v <= 100)
                    => analysis.failureProbability = Num(prob.v)
            /\ (conf.t = "number" /\ conf.v > 0 /\ conf.v <= 100)
                    => analysis.confidence = Num(conf.v)
            /\ (reasoning.t = "string" /\ reasoning.n \in 1..ReasoningMax)
                    => analysis.reasoning = reasoning
            /\ (recs.t = "array" /\ Len(recs.a) <= RecommendationsMax)
                    => analysis.recommendations = recs

(***************************************************************************)
(* The artifact readers of assessDeploymentReadiness (ai-demo.ts).  Reader *)
(* scores are percentages 0..100; the gate receives score / 100, which in  *)
(* hundredths is the same integer.  The test counts of the model are such  *)
(* that passed / total * 100 is an integer.                                *)
(***************************************************************************)
\* what readTestReports finds: an HTML report (digit captures), a JSON report
\* (stats.passed, stats.failed, stats.total as written in the file), the CI
\* environment variables (parseInt of CI_TESTS_PASSED / CI_TESTS_FAILED, or
\* the simulated counts), or a report that cannot be read
TestReports ==
    {[source |-> "html", passed |-> c[1], failed |-> c[2], total |-> c[1] + c[2]] :
        c \in {<<0, 0>>, <<0, 3>>, <<17, 3>>, <<20, 0>>, <<97, 3>>, <<19, 1>>}}
    \cup {[source |-> "json", passed |-> c[1], failed |-> c[2], total |-> c[3]] :
        c \in {<<20, 0, 20>>, <<50, 0, 10>>, <<0, 0, 0>>, <<97, 3, 100>>}}
    \cup {[source |-> "env", passed |-> c[1], failed |-> c[2], total |-> c[1] + c[2]] :
        c \in {<<20, 0>>, <<0 - 5, 10>>, <<0 - 5, 0>>, <<19, 1>>}}
    \cup {[source |-> "unreadable", passed |-> 0, failed |-> 0, total |-> 0]}

\* 92 + Math.random() * 7
SimulatedSuccessRates == {92, 95, 98}

\* AICIDemo.readTestReports
readTestReports(report, random) ==
    IF report.source = "unreadable"
    THEN [successRate |-> random, totalTests |-> 28, criticalIssues |-> <<>>]
    ELSE [successRate |-> IF report.total > 0
                          THEN (report.passed * 100) \div report.total
                          ELSE 95,
          totalTests |-> report.total,
          criticalIssues |-> IF report.failed > 2
                             THEN <<"critical test failures">> ELSE <<>>]

\* what readSecurityReports finds: the vulnerability counts of a report or of
\* npm audit (all zero when neither can be obtained), the number of checked
\* source files that hold eval( and innerHTML, whether the API key is short,
\* and whether the scan throws
SecurityScans ==
    [obtained : {TRUE}, threw : {FALSE}, critical : {0, 1}, high : {0, 1},
     moderate : {0, 3}, evalFiles : {0, 2}, xssFiles : {0, 1}, shortKey : BOOLEAN]
    \cup [obtained : {FALSE}, threw : {FALSE}, critical : {0}, high : {0},
          moderate : {0}, evalFiles : {0, 2}, xssFiles : {0}, shortKey : {FALSE}]
    \cup [obtained : {FALSE}, threw : {TRUE}, critical : {0}, high : {0},
          moderate : {0}, evalFiles : {0}, xssFiles : {0}, shortKey : {FALSE}]

\* AICIDemo.readSecurityReports
readSecurityReports(scan) ==
    LET criticalIssues ==
            (IF scan.critical > 0
                THEN <<"Critical security vulnerabilities detected">> ELSE <<>>)
            \o (IF scan.high > 0 THEN <<"High-severity security issues">> ELSE <<>>)
            \o [i \in 1..scan.evalFiles |-> "Code injection vulnerability"]
        score == 95 - (IF scan.critical > 0 THEN 40 ELSE 0)
                    - (IF scan.high > 0 THEN 20 ELSE 0)
                    - (IF scan.moderate > 2 THEN 10 ELSE 0)
                    - 20 * scan.evalFiles
                    - 10 * scan.xssFiles
                    - (IF scan.shortKey THEN 15 ELSE 0)
    IN  [score |-> Max(60, Min(100, IF scan.threw THEN 80 ELSE score)),
         criticalIssues |-> SubSeqTo(criticalIssues, 3)]

\* what readPerformanceReports measures: which of the four measurements are
\* over their limit, or a measurement that fails (fetch or browser)
PerformanceRuns ==
    {[failed |-> FALSE, slow |-> m] :
        m \in {{}, {"network"}, {"memory", "launch"}, {"render"},
               {"network", "memory", "launch", "render"}}}
    \cup {[failed |-> TRUE, slow |-> {}]}

\* AICIDemo.readPerformanceReports
readPerformanceReports(perf) ==
    IF perf.failed
    THEN [score |-> 75, criticalIssues |-> <<"Performance measurement incomplete">>]
    ELSE [score |-> Max(60, 100 - (IF "network" \in perf.slow THEN 20 ELSE 0)
                               - (IF "memory" \in perf.slow THEN 15 ELSE 0)
                               - (IF "launch" \in perf.slow THEN 10 ELSE 0)
                               - (IF "render" \in perf.slow THEN 5 ELSE 0)),
          criticalIssues |->
             (IF "network" \in perf.slow THEN <<"Slow network">> ELSE <<>>)
             \o (IF "memory" \in perf.slow THEN <<"High memory usage">> ELSE <<>>)
             \o (IF "launch" \in perf.slow THEN <<"Slow browser launch">> ELSE <<>>)
             \o (IF "render" \in perf.slow THEN <<"Slow page rendering">> ELSE <<>>)]

\* what readCodeQualityReports finds: whether tsc --noEmit fails, the integer
\* parseInt gives for CI_QUALITY_SCORE (or for the simulated 75..95), or an
\* analysis that throws
QualityChecks ==
    {[outcome |-> "compile-fails", ciQualityScore |-> 0],
     [outcome |-> "throws", ciQualityScore |-> 0]}
    \cup {[outcome |-> "compiles", ciQualityScore |-> q] : q \in {65, 75, 90, 150}}

\* AICIDemo.readCodeQualityReports
readCodeQualityReports(quality) ==
    CASE quality.outcome = "throws" ->
            [score |-> 75, criticalIssues |-> <<>>]
      [] quality.outcome = "compile-fails" ->
            [score |-> Max(60, 90 - 30), criticalIssues |-> <<"Code compilation failures">>]
      [] OTHER ->
            [score |-> Max(60, quality.ciQualityScore),
             criticalIssues |-> IF quality.ciQualityScore < 70
                                THEN <<"Critical code quality issues detected">>
                                ELSE <<>>]

\* assessDeploymentReadiness: the deploymentData made of the four results
deploymentData(m) ==
    [set |-> TRUE,
     testSuccessRate |-> m.test.successRate,
     securityScore |-> m.security.score,
     performanceScore |-> m.performance.score,
     codeQuality |-> m.quality.score,
     criticalIssues |-> m.security.criticalIssues \o m.performance.criticalIssues
                            \o m.quality.criticalIssues]

(***************************************************************************)
(* SpecAssess: one assessDeploymentReadiness call.                         *)
(***************************************************************************)
InitAssess ==
    /\ artifacts \in [set : {TRUE}, test : TestReports, security : SecurityScans,
                      performance : PerformanceRuns, quality : QualityChecks]
    /\ metrics = [set |-> FALSE]
    /\ data = [set |-> FALSE]
    /\ gPc = "reading"
    /\ aiDecision = [set |-> FALSE]
    /\ priorApproved = FALSE
    /\ NormOff /\ PipeOff /\ RetryOff

\* the four readers are awaited and deploymentData is built
ReadArtifacts ==
    /\ gPc = "reading"
    /\ \E random \in SimulatedSuccessRates :
          metrics' = [set |-> TRUE,
                      test |-> readTestReports(artifacts.test, random),
                      security |-> readSecurityReports(artifacts.security),
                      performance |-> readPerformanceReports(artifacts.performance),
                      quality |-> readCodeQualityReports(artifacts.quality)]
    /\ data' = deploymentData(metrics')
    /\ gPc' = "input"
    /\ UNCHANGED <<artifacts, aiDecision, priorApproved, normVars, pipeVars, retryVars>>

NextAssess == ReadArtifacts \/ Decide

SpecAssess == InitAssess /\ [][NextAssess]_vars

Assessed == gPc \in {"input", "decided"} /\ metrics.set

\* the readers that could not obtain their data
FailedReaders ==
    (IF artifacts.test.source = "unreadable" THEN {"test"} ELSE {})
    \cup (IF ~artifacts.security.obtained THEN {"security"} ELSE {})
    \cup (IF artifacts.performance.failed THEN {"performance"} ELSE {})
    \cup (IF artifacts.quality.outcome = "throws" THEN {"quality"} ELSE {})

\* C23: a reader that cannot obtain its data returns a critical-issue note
\* (the analysis is incomplete), and a deployment check with a failed reader is
\* not approved.
C23_ReaderFailureHolds ==
    Assessed =>
        /\ \A reader \in FailedReaders : metrics[reader].criticalIssues # <<>>
        /\ (gPc = "decided" /\ FailedReaders # {}) => ~aiDecision.approved

\* C24: every reader delivers a score within [0,1] (0..100 in hundredths) to
\* the gate, whatever the reports and the CI variables hold, and the score of
\* the assessment is above 0 and at most 100.
C24_GateRanges ==
    Assessed =>
        /\ \A k \in ScoreNames : data[k] >= 0 /\ data[k] <= 100
        /\ gPc = "decided" => (aiDecision.score > 0 /\ aiDecision.score <= 100)

\* C28: the critical-issue list handed to the deployment decision is the
\* concatenation of the critical issues of all four readers (test, security,
\* performance, code quality); a test report that flags critical test
\* failures makes the list non-empty and the deployment held.
C28_AllCriticalIssuesReachGate ==
    Assessed =>
        /\ data.criticalIssues =
               metrics.test.criticalIssues \o metrics.security.criticalIssues
                   \o metrics.performance.criticalIssues
                   \o metrics.quality.criticalIssues
        /\ metrics.test.criticalIssues # <<>> =>
               /\ data.criticalIssues # <<>>
               /\ gPc = "decided" => ~aiDecision.approved

\* C26: an approved verdict carries exactly five reasons in the order tests,
\* security, performance, quality, closing line; a held verdict carries the
\* overall score against the 85% threshold, the number of critical issues,
\* the 'manual review recommended' line, and nothing else.
C26_ReasoningShape ==
    gPc \in {"decided", "raised"} =>
        IF aiDecision.approved
        THEN aiDecision.reasoning =
                << <<"Test success rate", data.testSuccessRate>>,
                   <<"Security score", data.securityScore>>,
                   <<"Performance score", data.performanceScore>>,
                   <<"Code quality", data.codeQuality>>,
                   <<"All metrics above deployment threshold", 0>> >>
        ELSE aiDecision.reasoning =
                << <<"Overall score below 85% threshold", aiDecision.score>>,
                   <<"Critical issues detected", Len(data.criticalIssues)>>,
                   <<"Manual review recommended before deployment", 0>> >>

DetectedChanges == <<Change("src/auth/login.ts", "auth"),
                     Change("src/api/users.ts", "api"),
                     Change("src/components/UserProfile.tsx", "ui"),
                     Change("src/config/database.ts", "config")>>

\* detectedChanges.filter(() => Math.random() > 0.3): kept is the set of
\* positions whose draw was above 0.3
RECURSIVE KeepAt(_, _, _)
KeepAt(seq, kept, i) ==
    IF i > Len(seq) THEN <<>>
    ELSE (IF i \in kept THEN <<seq[i]>> ELSE <<>>) \o KeepAt(seq, kept, i + 1)

FilteredChanges(kept) == KeepAt(DetectedChanges, kept, 1)

\* the outcomes of the filter a run may draw: no change, the ui change alone,
\* the auth and api changes, the auth and config changes, all four
KeptDraws == {{}, {3}, {1, 2}, {1, 4}, {1, 2, 3, 4}}

SuitesReply(a) ==
    [form |-> "json",
     value |-> JObj([riskLevel |-> JStr("high", 4),
                     failureProbability |-> JNum(80),
                     confidence |-> JNum(90),
                     testSuites |-> JArr(a)])]

\* how the oracle call of one optimizePipeline run may end
PipelineOutcomes ==
    {[kind |-> "threw"],
     [kind |-> "answered",
      text |-> SuitesReply(<<SuiteObject("Authentication Tests", "high", 100),
                             SuiteObject("UI Component Tests", "high", 10)>>)],
     [kind |-> "answered",
      text |-> SuitesReply(<<SuiteObject("Authentication Tests", "high", 100),
                             SuiteObject("Authentication Tests", "low", 10)>>)]}

\* AITestPredictor.analyzeCodeChanges as one call: the oracle's analysis when
\* the client is available, the heuristic analysis otherwise
analyzeCodeChanges(available, cs, outcome) ==
    IF ~available THEN HeuristicPredictions(cs)
    ELSE IF outcome.kind = "threw"
         THEN AIPredictions(fallbackCodeAnalysis(ChangedFiles(cs)))
         ELSE AIPredictions(parseCodeAnalysisResponse(outcome.text, ChangedFiles(cs)))

\* Object.values(resourceAllocation).reduce((sum, r) => sum + r[field], 0)
RECURSIVE SumAllocation(_, _, _)
SumAllocation(allocation, names, field) ==
    IF names = {} THEN 0
    ELSE LET n == CHOOSE x \in names : TRUE
         IN  allocation[n][field] + SumAllocation(allocation, names \ {n}, field)

\* sum / predictions.length, in 1/60 of the unit of sum; 0 / 0 is NaN
PerPrediction(sum, ps) ==
    IF Len(ps) = 0 THEN NaN ELSE Num((60 * sum) \div Len(ps))

\* AIPipelineOptimizer.calculatePipelineMetrics
calculatePipelineMetrics(ps, strat) ==
    [totalDuration |-> strat.totalEstimatedTime,
     testCount |-> Len(ps),
     failureRate |->
        PerPrediction(SumSeq([i \in 1..Len(ps) |-> ps[i].failureProbability]), ps),
     retryCount |->
        SumAllocation(strat.resourceAllocation, DOMAIN strat.resourceAllocation, "retries"),
     resourceUtilization |->
        PerPrediction(SumAllocation(strat.resourceAllocation,
                                    DOMAIN strat.resourceAllocation, "runners"), ps)]

\* (num / den * 100).toFixed(1) for den > 0, as tenths of a percent: the
\* nearest tenth, a half rounded away from zero
RoundTenths(num, den) ==
    IF num >= 0 THEN (2000 * num + den) \div (2 * den)
    ELSE 0 - ((2000 * (0 - num) + den) \div (2 * den))

\* `${((baselineTime - totalDuration) / baselineTime * 100).toFixed(1)}%`:
\* the text "NaN%" when the baseline is 0 (0 / 0), else the text of the tenths
TimeSavingText(baselineTime, totalDuration) ==
    IF baselineTime = 0
    THEN [text |-> "NaN%", tenths |-> 0]
    ELSE [text |-> "<n>%", tenths |-> RoundTenths(baselineTime - totalDuration, baselineTime)]

\* parseFloat(timeSaving.replace('%', '')), in tenths of a percent
ParseTimeSaving(timeSaving) ==
    IF timeSaving.text = "NaN%" THEN NaN ELSE Num(timeSaving.tenths)

BaselineTime(ps) == SumSeq([i \in 1..Len(ps) |-> ps[i].estimatedRunTime])

\* AIPipelineOptimizer.generateInsights
generateInsights(ps, strat, pipelineMetrics) ==
    [timeSaving |-> TimeSavingText(BaselineTime(ps), pipelineMetrics.totalDuration),
     highRiskTests |-> Len(SelectSeq(ps, LAMBDA p : p.priority = "high")),
     totalRunners |->
        SumAllocation(strat.resourceAllocation, DOMAIN strat.resourceAllocation, "runners"),
     confidenceScore |-> 89]

RecentCount == 5

\* optimizationHistory.slice(-5)
RecentResults(history) ==
    SubSeq(history, Max(1, Len(history) - RecentCount + 1), Len(history))

\* recentResults.reduce((sum, r) => sum + parseFloat(...), 0) / length, in
\* 1/600 of a percent; a NaN term makes the sum NaN
AvgTimeSaving(recent) ==
    LET terms == [i \in 1..Len(recent) |-> ParseTimeSaving(recent[i].insights.timeSaving)]
    IN  IF \E i \in 1..Len(terms) : terms[i].nan THEN NaN
        ELSE Num((60 * SumSeq([i \in 1..Len(terms) |-> terms[i].v])) \div Len(terms))

\* AIPipelineOptimizer.getRealTimeInsights
getRealTimeInsights(history) ==
    LET recentResults == RecentResults(history)
        avgTimeSaving == AvgTimeSaving(recentResults)
    IN  IF Len(recentResults) = 0
        THEN [set |-> TRUE,
              currentOptimization |-> Num(0),
              trendsDetected |-> <<"No optimization history available">>,
              performanceScore |-> Num(0)]
        ELSE [set |-> TRUE,
              currentOptimization |-> avgTimeSaving,
              trendsDetected |-> <<"Average time saving trend",
                                   "Test failure prediction accuracy improving",
                                   "Flaky test detection becoming more precise">>,
              performanceScore |->
                 MathMin(Num(95 * 600),
                         IF avgTimeSaving.nan THEN NaN
                         ELSE Num(70 * 600 + avgTimeSaving.v))]

\* index === 0 ? 'high' : index === 1 ? 'medium' : 'low', for the 1-based
\* position of a group
IndexLabel(i) == IF i = 1 THEN "high" ELSE IF i = 2 THEN "medium" ELSE "low"

\* the fileMap of generateTestCommand
TestFileOf(suite) ==
    CASE suite = "Authentication Tests" -> "tests/auth.spec.ts"
      [] suite = "API Integration Tests" -> "tests/api.spec.ts"
      [] suite = "UI Component Tests" -> "tests/ui.spec.ts"
      [] suite = "Database Tests" -> "tests/database.spec.ts"
      [] suite = "Integration Tests" -> "tests/integration.spec.ts"
      [] OTHER -> "tests/example.spec.ts"

\* AIPipelineOptimizer.generateTestCommand: the files of the command line
generateTestCommand(testGroup) == [i \in 1..Len(testGroup) |-> TestFileOf(testGroup[i])]

\* AIPipelineOptimizer.generateGitHubActionsStrategy
generateGitHubActionsStrategy(ps, strat, insights) ==
    [set |-> TRUE,
     matrixStrategy |->
        [i \in 1..Len(strat.parallelGroups) |->
            [name |-> i, tests |-> strat.parallelGroups[i], priority |-> IndexLabel(i)]],
     environmentVariables |->
        [ESTIMATED_TIME_SAVING |-> insights.timeSaving,
         HIGH_RISK_TESTS |-> Len(SelectSeq(ps, LAMBDA p : p.priority = "high"))],
     stepConfiguration |->
        [i \in 1..Len(strat.parallelGroups) |->
            [name |-> i,
             if |-> IndexLabel(i),
             run |-> generateTestCommand(strat.parallelGroups[i]),
             timeoutMinutes |-> ((strat.totalEstimatedTime + 59) \div 60) + 5,
             continueOnError |-> i > 1]]]

MaxRuns == 6

(***************************************************************************)
(* SpecOptimize: one optimizer, its runs and the queries on their results. *)
(***************************************************************************)
InitOptimize ==
    /\ isEnabled \in BOOLEAN
    /\ changes = <<>>
    /\ pPc = "idle"
    /\ oracleCalls = 0
    /\ oracleOutcome = "none"
    /\ predictions = <<>>
    /\ strategy = [set |-> FALSE]
    /\ OptimizerOff
    /\ NormOff /\ RetryOff /\ GateOff

\* optimizePipeline(): the changes (a local of the call), the predictions,
\* the strategy, the metrics, the insights, and the push onto
\* optimizationHistory
OptimizePipeline ==
    /\ Len(optimizationHistory) < MaxRuns
    /\ \E kept \in KeptDraws :
       \E outcome \in (IF isEnabled THEN PipelineOutcomes ELSE {[kind |-> "none"]}) :
       \E codeChanges \in {FilteredChanges(kept)} :
       \E ps \in {analyzeCodeChanges(isEnabled, codeChanges, outcome)} :
       \E strat \in {generateOptimizationStrategy(ps)} :
       \E pipelineMetrics \in {calculatePipelineMetrics(ps, strat)} :
       \E insights \in {generateInsights(ps, strat, pipelineMetrics)} :
          /\ predictions' = ps
          /\ strategy' = strat
          /\ result' = [set |-> TRUE, metrics |-> pipelineMetrics, insights |-> insights]
          /\ optimizationHistory' =
                Append(optimizationHistory,
                       [insights |-> [timeSaving |-> insights.timeSaving]])
          /\ oracleOutcome' = outcome.kind
    /\ oracleCalls' = IF isEnabled THEN 1 ELSE 0
    /\ pPc' = "planned"
    /\ realTimeInsights' = [set |-> FALSE]
    /\ githubStrategy' = [set |-> FALSE]
    /\ UNCHANGED <<isEnabled, changes, normVars, retryVars, gateVars>>

\* getRealTimeInsights()
GetRealTimeInsights ==
    /\ realTimeInsights' = getRealTimeInsights(optimizationHistory)
    /\ UNCHANGED <<isEnabled, changes, pPc, oracleCalls, oracleOutcome, predictions,
                   strategy, optimizationHistory, result, githubStrategy,
                   normVars, retryVars, gateVars>>

\* generateGitHubActionsStrategy(result) on the latest result
GenerateGitHubActionsStrategy ==
    /\ result.set
    /\ githubStrategy' = generateGitHubActionsStrategy(predictions, strategy, result.insights)
    /\ UNCHANGED <<isEnabled, changes, pPc, oracleCalls, oracleOutcome, predictions,
                   strategy, optimizationHistory, result, realTimeInsights,
                   normVars, retryVars, gateVars>>

NextOptimize == OptimizePipeline \/ GetRealTimeInsights \/ GenerateGitHubActionsStrategy

SpecOptimize == InitOptimize /\ [][NextOptimize]_vars

\* C25: for every result of optimizePipeline, the strategy's total estimated
\* time is strictly less than the sum of estimatedRunTime over all
\* predictions, and the reported time saving is a percentage above 0.
C25_TimeSaving ==
    result.set =>
        /\ strategy.totalEstimatedTime < BaselineTime(predictions)
        /\ LET reported == ParseTimeSaving(result.insights.timeSaving)
           IN  ~reported.nan /\ reported.v > 0

\* C27: after one or more optimizePipeline calls, getRealTimeInsights returns
\* currentOptimization >= 0 and a performanceScore above 0 and at most 100,
\* also when a run produced no prediction.
C27_InsightsAfterOptimization ==
    (realTimeInsights.set /\ Len(optimizationHistory) >= 1) =>
        /\ ~realTimeInsights.currentOptimization.nan
        /\ realTimeInsights.currentOptimization.v >= 0
        /\ ~realTimeInsights.performanceScore.nan
        /\ realTimeInsights.performanceScore.v > 0
        /\ realTimeInsights.performanceScore.v <= 100 * 600

\* C30: in the generated matrix and step configuration each group's priority
\* label is the tier of the suites it contains, and a group is marked
\* continue-on-error exactly when it contains no high-tier suite.
C30_GroupsCarryTheirTier ==
    githubStrategy.set =>
        \A i \in 1..Len(githubStrategy.matrixStrategy) :
            LET group == githubStrategy.matrixStrategy[i]
                step == githubStrategy.stepConfiguration[i]
                TierIs(name, tier) ==
                    \E k \in 1..Len(predictions) :
                        /\ predictions[k].testSuite = name
                        /\ predictions[k].priority = tier
            IN  /\ \A name \in Range(group.tests) : TierIs(name, group.priority)
                /\ \A name \in Range(group.tests) : TierIs(name, step.if)
                /\ step.continueOnError =
                      ~(\E name \in Range(group.tests) : TierIs(name, "high"))

====
